---- MODULE Spec2Model ----
(***************************************************************************)
(* The metrics registry of common/metrics/src/lib.rs: the process-wide     *)
(* METRICS singleton (last_flush, Fs, Memory, Http, K8s, Journald), the    *)
(* prometheus statics FS_EVENTS / FS_LINES / FS_BYTES / FS_PARTIAL_READS,  *)
(* the flush loop Metrics::start and the threads that call into them.      *)
(***************************************************************************)
EXTENDS Integers, Sequences, FiniteSets, TLC

\* ------------------------------------------------------------------ bounds

\* The number of values of a u64.  TLC's integers have 32 bits, so the model
\* keeps the wrap-around arithmetic of AtomicU64 over a narrower word.
U64 == 16
\* Producer calls made in one behaviour.
MaxCalls == 2
\* The wall clock (Utc::now().timestamp()) ranges over 0..MaxClock.
MaxClock == 3
\* jemalloc statistics range over 1..MaxMem.
MaxMem == 2
\* Records written by the flush loop in one behaviour.
MaxLog == 2
\* Backward steps of the wall clock in one behaviour.
MaxBack == 1

\* ------------------------------------------------------------ labels (l.28)

CREATE == "create"
DELETE == "delete"
WRITE == "write"
FS_ALL == <<CREATE, WRITE, DELETE>>

\* ---------------------------------------------------------------- threads

\* The thread running Metrics::start.
Flush == "flush"
\* A thread of the agent that uses the pub API of Metrics directly
\* (Metrics::reset, Metrics::print, Metrics::elapsed, the read_* getters).
App == "app"
\* The threads of the producer subsystems (fs tailer, http client, k8s, journald).
Producers == {"p1", "p2"}
Threads == {Flush, App} \cup Producers

VARIABLES
    FS_EVENTS,          \* IntCounterVec: label values -> child counter
    FS_LINES,           \* IntCounter
    FS_BYTES,           \* IntCounter
    FS_PARTIAL_READS,   \* IntCounter
    last_flush,         \* METRICS.last_flush : AtomicI64
    http,               \* METRICS.http : the four AtomicU64 of Http
    k8s,                \* METRICS.k8s : the six AtomicU64 of K8s
    journald,           \* METRICS.journald : the two AtomicU64 of Journald
    jemalloc,           \* the allocator behind METRICS.memory's mibs
    now,                \* the wall clock, Utc::now().timestamp()
    pc,                 \* thread -> [op, i, panic]: the call it is in and the step of it
    object,             \* thread -> the values print() has read so far
    log,                \* the records written by info!
    ret,                \* what App's last completed call returned
    hist                \* history of the calls made (not program state)

fsVars == <<FS_EVENTS, FS_LINES, FS_BYTES, FS_PARTIAL_READS>>
atomVars == <<http, k8s, journald>>
vars == <<FS_EVENTS, FS_LINES, FS_BYTES, FS_PARTIAL_READS, last_flush, http, k8s,
          journald, jemalloc, now, pc, object, log, ret, hist>>

\* ------------------------------------------------------- atomics, counters

\* fetch_add written as a plain store of the operand.
fetch_add_as_store(v, n) == n % U64

\* fetch_add that subtracts.
fetch_add_down(v, n) == (v + U64 - (n % U64)) % U64

\* fetch_add that saturates at u64::MAX.
fetch_add_saturating(v, n) == IF v + n >= U64 THEN U64 - 1 ELSE v + n

\* AtomicU64::fetch_add wraps around on overflow.
fetch_add(v, n) == (v + n) % U64

\* AtomicU64::store.
store(v, x) == x

\* `x as u64` of an i64.
as_u64(x) == x % U64

\* prometheus IntCounter::inc_by on the counter's AtomicU64.
inc_by(v, n) == (v + n) % U64

\* MetricVec::get_metric_with_label_values: Err(InconsistentCardinality) unless
\* one value is given for each label name the vector was registered with.
\* FS_EVENTS is registered with the label names labels::FS_ALL.
get_metric_with_label_values_ok(vals) == Len(vals) = Len(FS_ALL)

\* The child of FS_EVENTS for vals, created with value 0 on first use.
with_label_values(vec, vals) == IF vals \in DOMAIN vec THEN vec ELSE vec @@ (vals :> 0)

HttpFields == {"requests", "limit_hits", "request_size", "retries"}
K8sFields == {"lines", "polls", "creates", "deletes", "events", "notifies"}
JournaldFields == {"lines", "bytes"}
FsCounters == {"lines", "bytes", "partial_reads"}

\* The counters that exist: <<domain, field>>.
Counters ==
    ({"http"} \X HttpFields) \cup ({"k8s"} \X K8sFields)
        \cup ({"journald"} \X JournaldFields) \cup ({"fs"} \X FsCounters)

\* What the Fs::increment_{creates,deletes,writes} calls address.
EventTargets == {"fs_events"} \X {CREATE, DELETE, WRITE}

Targets == Counters \cup EventTargets

\* The current value of counter c (a load / IntCounter::get).
Val(c) ==
    CASE c[1] = "http" -> http[c[2]]
      [] c[1] = "k8s" -> k8s[c[2]]
      [] c[1] = "journald" -> journald[c[2]]
      [] c = <<"fs", "lines">> -> FS_LINES
      [] c = <<"fs", "bytes">> -> FS_BYTES
      [] c = <<"fs", "partial_reads">> -> FS_PARTIAL_READS

\* The value of the FS_EVENTS child for vals, 0 when it was never created.
ChildVal(vals) == IF vals \in DOMAIN FS_EVENTS THEN FS_EVENTS[vals] ELSE 0

\* The sizes producers pass to add_bytes / add_request_size.
Sizes == {1, 2, U64 - 1}

Idle == [op |-> "idle", i |-> 0, panic |-> FALSE]
NoRet == [op |-> "none", val |-> 0]

Stats == {"active", "allocated", "resident"}

\* ------------------------------------------------------------------- Init

\* The second in which METRICS was constructed.
Born == 1

\* lazy_static METRICS = Metrics::new(): last_flush is the time of construction,
\* all atomics are 0; the prometheus statics are registered with value 0 and
\* FS_EVENTS has no child yet.  Nothing else has happened, one second later.
Init ==
    /\ now = Born + 1
    /\ last_flush = Born
    /\ FS_EVENTS = <<>>
    /\ FS_LINES = 0
    /\ FS_BYTES = 0
    /\ FS_PARTIAL_READS = 0
    /\ http = [f \in HttpFields |-> 0]
    /\ k8s = [f \in K8sFields |-> 0]
    /\ journald = [f \in JournaldFields |-> 0]
    /\ jemalloc = [ok |-> TRUE, live |-> [s \in Stats |-> 1], cached |-> [s \in Stats |-> 1]]
    /\ pc = [t \in Threads |-> IF t = Flush THEN [op |-> "sleep", i |-> 0, panic |-> FALSE]
                                ELSE Idle]
    /\ object = [t \in {Flush, App} |-> <<>>]
    /\ log = <<>>
    /\ ret = NoRet
    /\ hist = [calls |-> 0,
               issued |-> [c \in Targets |-> 0],
               done |-> [c \in Targets |-> 0],
               added |-> [c \in Targets |-> 0],
               quiet |-> FALSE,
               born |-> Born,
               real |-> 1,
               real_at |-> -1,
               back |-> FALSE,
               backs |-> 0,
               reset_at |-> -1,
               call_at |-> -1,
               prev |-> -1,
               last |-> -1]

\* -------------------------------------------------------------- producers

\* A producer thread that is alive makes one more call.
Call(p) == pc[p] = Idle /\ hist.calls < MaxCalls

\* The call on target c returned after adding n.
Returned(c, n) ==
    hist' = [hist EXCEPT !.calls = @ + 1, !.issued[c] = @ + 1, !.done[c] = @ + 1,
                         !.added[c] = @ + n, !.quiet = FALSE]

\* The call on target c panicked: the calling thread unwinds and ends.
Panicked(t, c, name) ==
    /\ hist' = [hist EXCEPT !.calls = @ + 1, !.issued[c] = @ + 1, !.quiet = FALSE]
    /\ pc' = [pc EXCEPT ![t] = [op |-> name, i |-> 0, panic |-> TRUE]]

\* FS_EVENTS.with_label_values(&[label]).inc(): with_label_values unwraps the
\* result of get_metric_with_label_values.
FsEventInc(p, label, name) ==
    /\ Call(p)
    /\ IF get_metric_with_label_values_ok(<<label>>)
         THEN /\ FS_EVENTS' = [with_label_values(FS_EVENTS, <<label>>)
                                  EXCEPT ![<<label>>] = inc_by(@, 1)]
              /\ Returned(<<"fs_events", label>>, 1)
              /\ UNCHANGED pc
         ELSE /\ Panicked(p, <<"fs_events", label>>, name)
              /\ UNCHANGED FS_EVENTS
    /\ UNCHANGED <<FS_LINES, FS_BYTES, FS_PARTIAL_READS, last_flush, atomVars, jemalloc,
                   now, object, log, ret>>

Fs_increment_creates(p) == FsEventInc(p, CREATE, "Fs::increment_creates")

Fs_increment_deletes(p) == FsEventInc(p, DELETE, "Fs::increment_deletes")

Fs_increment_writes(p) == FsEventInc(p, WRITE, "Fs::increment_writes")

Fs_increment_lines(p) ==
    /\ Call(p)
    /\ FS_LINES' = inc_by(FS_LINES, 1)
    /\ Returned(<<"fs", "lines">>, 1)
    /\ UNCHANGED <<FS_EVENTS, FS_BYTES, FS_PARTIAL_READS, last_flush, atomVars, jemalloc,
                   now, pc, object, log, ret>>

Fs_add_bytes(p, num) ==
    /\ Call(p)
    /\ FS_BYTES' = inc_by(FS_BYTES, num)
    /\ Returned(<<"fs", "bytes">>, num)
    /\ UNCHANGED <<FS_EVENTS, FS_LINES, FS_PARTIAL_READS, last_flush, atomVars, jemalloc,
                   now, pc, object, log, ret>>

Fs_increment_partial_reads(p) ==
    /\ Call(p)
    /\ FS_PARTIAL_READS' = inc_by(FS_PARTIAL_READS, 1)
    /\ Returned(<<"fs", "partial_reads">>, 1)
    /\ UNCHANGED <<FS_EVENTS, FS_LINES, FS_BYTES, last_flush, atomVars, jemalloc,
                   now, pc, object, log, ret>>

\* self.<field>.fetch_add(n, Ordering::Relaxed) on a field of Http.
HttpAdd(p, field, n) ==
    /\ Call(p)
    /\ http' = [http EXCEPT ![field] = fetch_add(@, n)]
    /\ Returned(<<"http", field>>, n)
    /\ UNCHANGED <<fsVars, last_flush, k8s, journald, jemalloc, now, pc, object, log, ret>>

Http_increment_requests(p) == HttpAdd(p, "requests", 1)

Http_increment_limit_hits(p) == HttpAdd(p, "limit_hits", 1)

\* add_request_size that also counts one request.
Http_add_request_size_counting(p, num) ==
    /\ Call(p)
    /\ http' = [http EXCEPT !.request_size = fetch_add(@, num),
                            !.requests = fetch_add(@, 1)]
    /\ Returned(<<"http", "request_size">>, num)
    /\ UNCHANGED <<fsVars, last_flush, k8s, journald, jemalloc, now, pc, object, log, ret>>

Http_add_request_size(p, num) == HttpAdd(p, "request_size", num)

Http_increment_retries(p) == HttpAdd(p, "retries", 1)

\* self.<field>.fetch_add(1, Ordering::Relaxed) on a field of K8s.
K8sAdd(p, field) ==
    /\ Call(p)
    /\ k8s' = [k8s EXCEPT ![field] = fetch_add(@, 1)]
    /\ Returned(<<"k8s", field>>, 1)
    /\ UNCHANGED <<fsVars, last_flush, http, journald, jemalloc, now, pc, object, log, ret>>

K8s_increment_lines(p) == K8sAdd(p, "lines")

K8s_increment_polls(p) == K8sAdd(p, "polls")

K8s_increment_creates(p) == K8sAdd(p, "creates")

K8s_increment_deletes(p) == K8sAdd(p, "deletes")

K8s_increment_events(p) == K8sAdd(p, "events")

K8s_increment_notifies(p) == K8sAdd(p, "notifies")

\* self.<field>.fetch_add(n, Ordering::Relaxed) on a field of Journald.
JournaldAdd(p, field, n) ==
    /\ Call(p)
    /\ journald' = [journald EXCEPT ![field] = fetch_add(@, n)]
    /\ Returned(<<"journald", field>>, n)
    /\ UNCHANGED <<fsVars, last_flush, http, k8s, jemalloc, now, pc, object, log, ret>>

Journald_increment_lines(p) == JournaldAdd(p, "lines", 1)

\* add_bytes that also counts one line.
Journald_add_bytes_counting(p, num) ==
    /\ Call(p)
    /\ journald' = [journald EXCEPT !.bytes = fetch_add(@, num),
                                    !.lines = fetch_add(@, 1)]
    /\ Returned(<<"journald", "bytes">>, num)
    /\ UNCHANGED <<fsVars, last_flush, http, k8s, jemalloc, now, pc, object, log, ret>>

Journald_add_bytes(p, num) == JournaldAdd(p, "bytes", num)

Produce ==
    \E p \in Producers :
        \/ Fs_increment_creates(p)
        \/ Fs_increment_deletes(p)
        \/ Fs_increment_writes(p)
        \/ Fs_increment_lines(p)
        \/ \E num \in Sizes : Fs_add_bytes(p, num)
        \/ Fs_increment_partial_reads(p)
        \/ Http_increment_requests(p)
        \/ Http_increment_limit_hits(p)
        \/ \E num \in Sizes : Http_add_request_size(p, num)
        \/ Http_increment_retries(p)
        \/ K8s_increment_lines(p)
        \/ K8s_increment_polls(p)
        \/ K8s_increment_creates(p)
        \/ K8s_increment_deletes(p)
        \/ K8s_increment_events(p)
        \/ K8s_increment_notifies(p)
        \/ Journald_increment_lines(p)
        \/ \E num \in Sizes : Journald_add_bytes(p, num)

\* ------------------------------------------------------- Metrics::print

\* The fields of the object! literal of Metrics::print, in evaluation order.
PrintOrder ==
    << <<"fs", "events">>, <<"fs", "creates">>, <<"fs", "deletes">>, <<"fs", "writes">>,
       <<"fs", "lines">>, <<"fs", "bytes">>, <<"fs", "partial_reads">>,
       <<"memory", "active">>, <<"memory", "allocated">>, <<"memory", "resident">>,
       <<"ingest", "requests">>, <<"ingest", "throughput">>, <<"ingest", "rate_limits">>,
       <<"ingest", "retries">>,
       <<"k8s", "lines">>, <<"k8s", "polls">>, <<"k8s", "creates">>, <<"k8s", "deletes">>,
       <<"k8s", "events">>, <<"k8s", "notifies">>,
       <<"journald", "lines">>, <<"journald", "bytes">> >>

\* The position of field k in the record.
PrintIndex(k) == CHOOSE i \in 1..Len(PrintOrder) : PrintOrder[i] = k

PrintEventFields == {"events", "creates", "deletes", "writes"}

\* The label values print() passes to FS_EVENTS.with_label_values for a field.
PrintLabels(field) ==
    CASE field = "events" -> FS_ALL
      [] field = "creates" -> <<CREATE>>
      [] field = "deletes" -> <<DELETE>>
      [] field = "writes" -> <<WRITE>>

\* The getter behind an ingest field of the record.
IngestField(field) ==
    CASE field = "requests" -> "requests"
      [] field = "throughput" -> "request_size"
      [] field = "rate_limits" -> "limit_hits"
      [] field = "retries" -> "retries"

IsEventField(k) == k[1] = "fs" /\ k[2] \in PrintEventFields

\* Does evaluating field k unwrap an Err?
PrintPanics(k) ==
    \/ IsEventField(k) /\ ~get_metric_with_label_values_ok(PrintLabels(k[2]))
    \/ k[1] = "memory" /\ ~jemalloc.ok

\* The value field k evaluates to.
PrintValue(k) ==
    CASE IsEventField(k) -> ChildVal(PrintLabels(k[2]))
      [] k[1] = "fs" /\ ~IsEventField(k) -> Val(k)
      [] k[1] = "memory" -> jemalloc.live[k[2]]
      [] k[1] = "ingest" -> Val(<<"http", IngestField(k[2])>>)
      [] k[1] \in {"k8s", "journald"} -> Val(k)

\* Thread t evaluates the next field of the record.  After the last field
\* print() returns; in Metrics::start the record goes to info! and the loop
\* goes on to Metrics::reset.
PrintStep(t) ==
    LET k == PrintOrder[pc[t].i]
        last == pc[t].i = Len(PrintOrder)
    IN  /\ pc[t].op = "print"
        /\ ~pc[t].panic
        /\ IF PrintPanics(k)
             THEN /\ pc' = [pc EXCEPT ![t].panic = TRUE]
                  /\ UNCHANGED <<FS_EVENTS, jemalloc, object, log, ret>>
             ELSE /\ FS_EVENTS' = IF IsEventField(k)
                                    THEN with_label_values(FS_EVENTS, PrintLabels(k[2]))
                                    ELSE FS_EVENTS
                  /\ jemalloc' = IF k[1] = "memory"
                                   THEN [jemalloc EXCEPT !.cached = jemalloc.live]
                                   ELSE jemalloc
                  /\ object' = [object EXCEPT ![t] = Append(@, PrintValue(k))]
                  /\ pc' = [pc EXCEPT ![t] =
                              IF ~last THEN [@ EXCEPT !.i = @ + 1]
                              ELSE IF t = Flush THEN [op |-> "reset", i |-> 1, panic |-> FALSE]
                              ELSE Idle]
                  /\ log' = IF last /\ t = Flush THEN Append(log, object'[t]) ELSE log
                  /\ ret' = IF last /\ t = App THEN [op |-> "print", val |-> 0] ELSE ret
        /\ UNCHANGED <<FS_LINES, FS_BYTES, FS_PARTIAL_READS, last_flush, atomVars, now, hist>>

\* ------------------------------------------------------- Metrics::reset

\* The stores of Metrics::reset in program order: last_flush, then fs().reset(),
\* memory().reset(), http().reset(), k8s().reset(), journald().reset().
ResetOrder ==
    << <<"metrics", "last_flush">>, <<"fs", "reset">>, <<"memory", "reset">>,
       <<"http", "requests">>, <<"http", "limit_hits">>, <<"http", "request_size">>,
       <<"http", "retries">>,
       <<"k8s", "lines">>, <<"k8s", "polls">>, <<"k8s", "creates">>, <<"k8s", "deletes">>,
       <<"k8s", "events">>, <<"k8s", "notifies">>,
       <<"journald", "lines">>, <<"journald", "bytes">> >>

\* Fs::reset has an empty body.
Fs_reset == UNCHANGED fsVars

\* Memory::reset that clears the sampled statistics.
Memory_reset_zeroing == jemalloc' = [jemalloc EXCEPT !.cached = [s \in Stats |-> 0]]

\* Memory::reset has an empty body.
Memory_reset == UNCHANGED jemalloc

\* The store of Http::reset at step k.
Http_reset(k) == IF k[1] = "http" THEN [http EXCEPT ![k[2]] = store(@, 0)] ELSE http

\* The store of K8s::reset at step k.
K8s_reset(k) == IF k[1] = "k8s" THEN [k8s EXCEPT ![k[2]] = store(@, 0)] ELSE k8s

\* The store of Journald::reset at step k.
Journald_reset(k) ==
    IF k[1] = "journald" THEN [journald EXCEPT ![k[2]] = store(@, 0)] ELSE journald

\* Thread t performs the next store of Metrics::reset.
ResetStep(t) ==
    LET k == ResetOrder[pc[t].i]
        last == pc[t].i = Len(ResetOrder)
    IN  /\ pc[t].op = "reset"
        /\ ~pc[t].panic
        /\ last_flush' = IF k[1] = "metrics" THEN store(last_flush, now) ELSE last_flush
        /\ Fs_reset
        /\ Memory_reset
        /\ http' = Http_reset(k)
        /\ k8s' = K8s_reset(k)
        /\ journald' = Journald_reset(k)
        /\ hist' = IF k[1] = "metrics"
                     THEN [hist EXCEPT !.reset_at = now, !.prev = -1, !.last = -1, !.real = 0]
                   ELSE IF k \in Counters
                     THEN [hist EXCEPT !.issued[k] = 0, !.done[k] = 0, !.added[k] = 0]
                   ELSE hist
        /\ pc' = [pc EXCEPT ![t] =
                    IF ~last THEN [@ EXCEPT !.i = @ + 1]
                    ELSE IF t = Flush THEN [op |-> "sleep", i |-> 0, panic |-> FALSE]
                    ELSE Idle]
        /\ ret' = IF last /\ t = App THEN [op |-> "reset", val |-> 0] ELSE ret
        /\ UNCHANGED <<now, object, log>>

\* ------------------------------------------------------- Metrics::start

\* sleep(60 s) is over: the loop calls Metrics::print.
FlushWake ==
    /\ pc[Flush].op = "sleep"
    /\ Len(log) < MaxLog
    /\ pc' = [pc EXCEPT ![Flush] = [op |-> "print", i |-> 1, panic |-> FALSE]]
    /\ object' = [object EXCEPT ![Flush] = <<>>]
    /\ UNCHANGED <<fsVars, last_flush, atomVars, jemalloc, now, log, ret, hist>>

\* ----------------------------------------------- calls of the App thread

\* App calls Metrics::reset().
Metrics_reset ==
    /\ pc[App] = Idle
    /\ pc' = [pc EXCEPT ![App] = [op |-> "reset", i |-> 1, panic |-> FALSE]]
    /\ ret' = NoRet
    /\ hist' = [hist EXCEPT !.quiet = TRUE]
    /\ UNCHANGED <<fsVars, last_flush, atomVars, jemalloc, now, object, log>>

\* print() that also stamps last_flush.
Metrics_print_stamping ==
    /\ pc[App] = Idle
    /\ pc' = [pc EXCEPT ![App] = [op |-> "print", i |-> 1, panic |-> FALSE]]
    /\ object' = [object EXCEPT ![App] = <<>>]
    /\ ret' = NoRet
    /\ last_flush' = now
    /\ UNCHANGED <<fsVars, atomVars, jemalloc, now, log, hist>>

\* App calls Metrics::print().
Metrics_print ==
    /\ pc[App] = Idle
    /\ pc' = [pc EXCEPT ![App] = [op |-> "print", i |-> 1, panic |-> FALSE]]
    /\ object' = [object EXCEPT ![App] = <<>>]
    /\ ret' = NoRet
    /\ UNCHANGED <<fsVars, last_flush, atomVars, jemalloc, now, log, hist>>

\* elapsed with the operands of the subtraction swapped.
elapsed_swapped(t, lf) == as_u64(lf - t)

\* (Utc::now().timestamp() - last_flush) as u64.
elapsed(t, lf) == as_u64(t - lf)

\* App calls Metrics::elapsed().
Metrics_elapsed ==
    /\ pc[App] = Idle
    /\ ret' = [op |-> "elapsed", val |-> elapsed(now, last_flush)]
    /\ hist' = [hist EXCEPT !.prev = hist.last, !.last = ret'.val, !.call_at = now,
                         !.real_at = hist.real]
    /\ UNCHANGED <<fsVars, last_flush, atomVars, jemalloc, now, pc, object, log>>

\* App calls a getter: Http::read_*, K8s::read_*, Journald::read_* (a Relaxed
\* load) or IntCounter::get on FS_LINES, FS_BYTES, FS_PARTIAL_READS.
Read(c) ==
    /\ pc[App] = Idle
    /\ ret' = [op |-> "read", val |-> Val(c)]
    /\ UNCHANGED <<fsVars, last_flush, atomVars, jemalloc, now, pc, object, log, hist>>

\* App calls Memory::read_active / read_allocated / read_resident:
\* epoch_mib.advance().unwrap(), then <stat>_mib.read().unwrap() as u64.
Memory_read(stat) ==
    /\ pc[App] = Idle
    /\ IF jemalloc.ok
         THEN /\ jemalloc' = [jemalloc EXCEPT !.cached = jemalloc.live]
              /\ ret' = [op |-> "memory", val |-> as_u64(jemalloc'.cached[stat])]
              /\ UNCHANGED pc
         ELSE /\ pc' = [pc EXCEPT ![App] = [op |-> "Memory::read", i |-> 0, panic |-> TRUE]]
              /\ UNCHANGED <<jemalloc, ret>>
    /\ UNCHANGED <<fsVars, last_flush, atomVars, now, object, log, hist>>

\* ------------------------------------------------------------ environment

\* A second passes on the wall clock.
Tick ==
    /\ now < MaxClock
    /\ now' = now + 1
    /\ hist' = [hist EXCEPT !.real = @ + 1]
    /\ UNCHANGED <<fsVars, last_flush, atomVars, jemalloc, pc, object, log, ret>>

\* The wall clock is set back (it is not a monotonic clock).
ClockBack ==
    /\ now > 0
    /\ hist.backs < MaxBack
    /\ now' = now - 1
    /\ hist' = [hist EXCEPT !.back = TRUE, !.backs = @ + 1]
    /\ UNCHANGED <<fsVars, last_flush, atomVars, jemalloc, pc, object, log, ret>>

\* The process allocates or frees: the allocator's statistics change.
Allocate ==
    /\ \E l \in [Stats -> 1..MaxMem] :
          /\ l # jemalloc.live
          /\ jemalloc' = [jemalloc EXCEPT !.live = l]
    /\ UNCHANGED <<fsVars, last_flush, atomVars, now, pc, object, log, ret, hist>>

\* The mallctl interface starts failing (epoch advance or statistic read).
MallctlFail ==
    /\ jemalloc.ok
    /\ jemalloc' = [jemalloc EXCEPT !.ok = FALSE]
    /\ UNCHANGED <<fsVars, last_flush, atomVars, now, pc, object, log, ret, hist>>

\* --------------------------------------------------------- specifications

FlushLoop == FlushWake \/ PrintStep(Flush) \/ ResetStep(Flush)

AppCalls ==
    \/ Metrics_reset
    \/ Metrics_print
    \/ PrintStep(App)
    \/ ResetStep(App)

\* The registry under its producers, the flush loop and a thread calling the
\* pub API; the clock and the allocator stand still.
Next ==
    \/ FlushLoop
    \/ AppCalls
    \/ \E c \in Counters : Read(c)
    \/ Produce

Spec == Init /\ [][Next]_vars

\* The registry and the wall clock: no producers.
NextClock ==
    \/ Tick
    \/ ClockBack
    \/ Metrics_elapsed
    \/ FlushLoop
    \/ AppCalls

SpecClock == Init /\ [][NextClock]_vars

\* The registry and the allocator: no producers.
NextMem ==
    \/ Allocate
    \/ MallctlFail
    \/ \E stat \in Stats : Memory_read(stat)
    \/ FlushLoop
    \/ AppCalls

SpecMem == Init /\ [][NextMem]_vars

\* ----------------------------------------------------------------- claims

\* C1: no increment is lost.  Every counter of Http, K8s and Journald and the
\* filesystem counters holds exactly the sum (mod 2^64) of the amounts of the
\* calls that have returned since the counter was last reset, whichever
\* producers made them and however they interleave.
C1_NoLostIncrement == \A c \in Counters : Val(c) = hist.added[c] % U64

\* C1 witness: two increments of the same counter have returned and it reads 2.
C1_TwoIncrements ==
    /\ hist.done[<<"http", "requests">>] = 2
    /\ http.requests = 2

\* C2 (as claimed): when Metrics::reset() has returned and no producer has
\* called since it began, every counter of every domain reads 0, the
\* filesystem counters included.
C2_AllZeroAfterReset ==
    (ret.op = "reset" /\ hist.quiet) =>
        /\ \A c \in Counters : Val(c) = 0
        /\ \A vals \in DOMAIN FS_EVENTS : FS_EVENTS[vals] = 0

\* C3 (as claimed): the flush loop's print() reads the Http, K8s and Journald
\* counters, so that a producer can increment one between that read and the
\* store of reset(): print() never fails before it has read them.
C3_PrintReadsCounters ==
    ~(/\ pc[Flush].op = "print"
      /\ pc[Flush].panic
      /\ pc[Flush].i < PrintIndex(<<"ingest", "requests">>))

\* C4 (as claimed): no increment/add operation, read or reset panics.
C4_OperationsNeverFail ==
    \A t \in Threads : pc[t].panic => pc[t].op \in {"print", "Memory::read"}

\* C5 (as claimed): for every label L of {create, write, delete} the value read
\* for L is the number of increments made to L.
C5_LabelCountsIncrements ==
    \A label \in {CREATE, WRITE, DELETE} :
        ChildVal(<<label>>) = hist.issued[<<"fs_events", label>>]

\* C6 (as claimed): a print() that has read 'events' goes on to read 'creates',
\* 'deletes' and 'writes', and 'events' is their sum.
C6_EventsIsSumOfLabels ==
    \A t \in {Flush, App} :
        pc[t].op = "print" =>
            /\ ~(pc[t].panic /\ IsEventField(PrintOrder[pc[t].i]))
            /\ Len(object[t]) >= 4 =>
                   object[t][1] = object[t][2] + object[t][3] + object[t][4]

\* No Http call other than add_request_size since the last reset.
OnlyRequestSizes ==
    \A f \in HttpFields \ {"request_size"} : hist.issued[<<"http", f>>] = 0

\* C7 (as claimed): after k calls add_request_size(n_1..n_k) and no other Http
\* call the sample count 'requests' is k and the sum is n_1 + ... + n_k.
C7_CountIsCalls ==
    OnlyRequestSizes =>
        /\ http.requests = hist.done[<<"http", "request_size">>]
        /\ http.request_size = hist.added[<<"http", "request_size">>]

\* C7 (amended): after k calls add_request_size(n_1..n_k) since the last reset
\* and no other Http call, read_request_size is (n_1 + ... + n_k) mod 2^64 and
\* read_requests is 0: add_request_size counts no sample.
C7_SumOnly ==
    OnlyRequestSizes =>
        /\ http.requests = 0
        /\ http.request_size = hist.added[<<"http", "request_size">>] % U64

\* C7 witness: sizes 1 and 2 were added, nothing else: sum 3, count 0.
C7_TwoSizes ==
    /\ OnlyRequestSizes
    /\ hist.done[<<"http", "request_size">>] = 2
    /\ http.request_size = 3
    /\ http.requests = 0

\* C8 (as claimed): after k calls Journald::add_bytes and no increment_lines
\* the journald record count 'lines' is k.
C8_BytesCountRecords ==
    hist.issued[<<"journald", "lines">>] = 0 =>
        journald.lines = hist.done[<<"journald", "bytes">>]

\* C8 (amended): add_bytes(n) adds n (mod 2^64) to the journald byte sum and
\* counts no record: after k add_bytes calls since the last reset and no
\* increment_lines call, read_lines is 0.
C8_BytesOnly ==
    /\ journald.bytes = hist.added[<<"journald", "bytes">>] % U64
    /\ hist.issued[<<"journald", "lines">>] = 0 => journald.lines = 0

\* C8 witness: two add_bytes calls (1 and 2), no increment_lines: bytes 3, lines 0.
C8_TwoRecords ==
    /\ hist.issued[<<"journald", "lines">>] = 0
    /\ hist.done[<<"journald", "bytes">>] = 2
    /\ journald.bytes = 3
    /\ journald.lines = 0

\* C9 (as claimed): a failing memory sampler only suppresses the memory
\* section: the flush loop stays alive and goes on reporting.
C9_SamplerFailureKeepsFlushing == ~jemalloc.ok => ~pc[Flush].panic

\* C10: with a wall clock that never went back, elapsed() is at least what the
\* previous elapsed() since the last reset returned, it is the number of
\* seconds since construction while no reset happened, and it is 0 in the clock
\* second of the last reset.
C10_ElapsedMonotone ==
    (ret.op = "elapsed" /\ ~hist.back) =>
        /\ hist.prev >= 0 => ret.val >= hist.prev
        /\ hist.reset_at = -1 => ret.val = hist.call_at - hist.born
        /\ hist.reset_at = hist.call_at => ret.val = 0

\* C10 witness: after a reset elapsed() returned 0, and one second later 1.
C10_GrowsAfterReset ==
    /\ ret.op = "elapsed"
    /\ ~hist.back
    /\ hist.reset_at >= 0
    /\ hist.prev = 0
    /\ ret.val = 1

\* Thread t performs the store of Metrics::reset into last_flush in this step.
StoresLastFlush(t) ==
    /\ pc[t].op = "reset"
    /\ ResetOrder[pc[t].i] = <<"metrics", "last_flush">>
    /\ pc'[t] # pc[t]

\* C11: last_flush is written only by Metrics::reset: every step of a producer
\* operation, of a read and of Metrics::print leaves it unchanged.
C11_OnlyResetWritesLastFlush ==
    [][last_flush' # last_flush => \E t \in {Flush, App} : StoresLastFlush(t)]_vars

\* C11 witness: producers have called, App has reset and then read a counter:
\* last_flush holds the time of the reset, not the time of construction.
C11_ResetStampedLastFlush ==
    /\ hist.calls > 0
    /\ ret.op = "read"
    /\ last_flush = hist.reset_at
    /\ last_flush # hist.born

\* The value Memory::read_<stat> returns when the sampler answers.
MemoryGauge(stat) == as_u64(jemalloc.live[stat])

\* Thread t takes a step of Metrics::reset (the call itself or one of its stores).
InReset(t) == pc'[t] # pc[t] /\ "reset" \in {pc[t].op, pc'[t].op}

\* C12: memory gauges are never reset.  No step of Metrics::reset, from the
\* call to the last store of the last domain, changes the sampler (its epoch
\* cache, its statistics, whether it answers) or the value any of
\* read_active, read_allocated, read_resident returns.
C12_ResetLeavesMemory ==
    [][(\E t \in {Flush, App} : InReset(t))
          => /\ jemalloc' = jemalloc
             /\ \A stat \in Stats : MemoryGauge(stat)' = MemoryGauge(stat)]_vars

\* C12 witness: a gauge was sampled at a grown statistic and a whole
\* Metrics::reset has returned since; the sample is still what a read returns.
C12_SampledThenReset ==
    /\ ret.op = "reset"
    /\ jemalloc.ok
    /\ jemalloc.cached["active"] = MaxMem
    /\ jemalloc.cached = jemalloc.live

\* C13 (as claimed): every tick of Metrics::start runs sleep, print, info!,
\* reset in that order.  The flush thread is always at one of these steps and
\* never leaves a tick half way; while it prints, the record holds the fields
\* read so far; when it resets, the whole record has been read and logged.
C13_TickOrder ==
    /\ pc[Flush].op \in {"sleep", "print", "reset"}
    /\ pc[Flush].op = "print" =>
           /\ ~pc[Flush].panic
           /\ Len(object[Flush]) = pc[Flush].i - 1
    /\ pc[Flush].op = "reset" =>
           /\ Len(object[Flush]) = Len(PrintOrder)
           /\ log # <<>>
           /\ log[Len(log)] = object[Flush]

\* C14 (as claimed): the flush loop never terminates or dies: as long as the
\* log has room for another record the flush thread has a next step to take.
C14_FlushLoopAlive == Len(log) < MaxLog => ENABLED FlushLoop

\* Thread t stores 0 into counter c in this step.
ResetsCounter(t, c) ==
    /\ pc[t].op = "reset"
    /\ ResetOrder[pc[t].i] = c
    /\ pc'[t] # pc[t]

\* In this step counter c stays non-negative, and goes down only by a reset
\* store of c or with more than 2^64 - 1 added since its last reset.
OnlyGrows(c) ==
    /\ Val(c)' >= 0
    /\ Val(c)' < Val(c) =>
           \/ \E t \in {Flush, App} : ResetsCounter(t, c)
           \/ hist'.added[c] >= U64

\* C15: a counter only increases until it is reset.  For every counter and
\* every step that is not a reset store of that counter, while the sum of the
\* amounts added since its last reset stays below 2^64, the value after the
\* step is at least the value before; and no counter is ever negative.  (A
\* step that leaves a domain's atomics alone leaves its counters as they were.)
C15_OnlyIncreases ==
    [][/\ http' # http => \A f \in HttpFields : OnlyGrows(<<"http", f>>)
       /\ k8s' # k8s => \A f \in K8sFields : OnlyGrows(<<"k8s", f>>)
       /\ journald' # journald => \A f \in JournaldFields : OnlyGrows(<<"journald", f>>)
       /\ fsVars' # fsVars =>
            /\ \A f \in FsCounters : OnlyGrows(<<"fs", f>>)
            /\ \A vals \in {FS_ALL, <<CREATE>>, <<DELETE>>, <<WRITE>>} :
                 ChildVal(vals)' >= ChildVal(vals)]_vars

\* C15 witness: a counter went up twice with no reset in between.
C15_GrewTwice ==
    /\ hist.reset_at = -1
    /\ hist.done[<<"k8s", "polls">>] = 2
    /\ k8s.polls = 2

\* The value behind a producer's target: a counter, or the FS_EVENTS child of
\* one label.
TargetVal(c) == IF c \in Counters THEN Val(c) ELSE ChildVal(<<c[2]>>)

\* C16 (as claimed): every producer call changes exactly its own counter, by
\* exactly its amount, and no other counter of any domain; a store of a
\* domain's reset changes no counter of another domain.
C16_ExactlyOneCounter ==
    [][/\ \A c \in Targets :
            hist'.issued[c] = hist.issued[c] + 1 =>
                /\ hist'.done[c] = hist.done[c] + 1
                /\ hist'.added[c] > hist.added[c]
                /\ TargetVal(c)' = (TargetVal(c) + hist'.added[c] - hist.added[c]) % U64
                /\ \A d \in Targets \ {c} : TargetVal(d)' = TargetVal(d)
       /\ \A t \in {Flush, App}, c \in Counters :
            ResetsCounter(t, c) =>
                \A d \in Targets : d[1] # c[1] => TargetVal(d)' = TargetVal(d)]_vars

\* C17 (as claimed): print() reads the counters one after another up to the
\* end of the record, so that a producer can change k8s 'polls' after 'lines'
\* was read: a print() that fails has at least read both.
C17_ReadsLinesThenPolls ==
    \A t \in {Flush, App} :
        (pc[t].op = "print" /\ pc[t].panic) => pc[t].i > PrintIndex(<<"k8s", "polls">>)

\* The two counters that take a caller-supplied amount through fetch_add.
SumCounters == {<<"http", "request_size">>, <<"journald", "bytes">>}

\* C18: add_request_size(n) and add_bytes(n) never fail, overflow included:
\* every such call returns, no thread panics in it, and the counter then
\* reads (s + n) mod 2^64 for the sum s it held before.
C18_AddWraps ==
    [][\A c \in SumCounters :
          hist'.issued[c] = hist.issued[c] + 1 =>
              /\ hist'.done[c] = hist.done[c] + 1
              /\ pc' = pc
              /\ Val(c)' = (Val(c) + hist'.added[c] - hist.added[c]) % U64]_vars

\* C18 witness: request_size held 2^64 - 1, add_request_size(2) returned and
\* the counter reads 1: it went down with no reset.
C18_WrappedAround ==
    /\ hist.reset_at = -1
    /\ hist.done[<<"http", "request_size">>] = 2
    /\ hist.added[<<"http", "request_size">>] = U64 + 1
    /\ http.request_size = 1

\* C19 (as claimed): elapsed() never returns more than the seconds that
\* really passed since the last reset (or since construction), whatever the
\* wall clock did.
C19_ElapsedAtMostReal == ret.op = "elapsed" => ret.val <= hist.real_at

====
